---- MODULE Spec2Model ----
(***************************************************************************)
(* MiniRun container runtime (src/src/container_runtime.c).                *)
(*                                                                         *)
(* One invocation = the supervisor (main) plus the child it clones         *)
(* (child_function).  Every system call of either process is one step.     *)
(* The cgroup v2 hierarchy under /sys/fs/cgroup is host state shared by    *)
(* all invocations.  All paths the program builds are prefixes of the one  *)
(* string "/sys/fs/cgroup/minirun-<name>...", so a directory path is       *)
(* identified by its length after snprintf has cut it to the buffer size.  *)
(***************************************************************************)
EXTENDS Integers, Sequences, FiniteSets, TLC

\* ---------------------------------------------------------------- bounds
\* argc ranges over 1..MaxArgc
MaxArgc == 4
\* the target command exits with a status in 0..MaxStatus
MaxStatus == 2
\* cleanup_cgroups is called up to MaxCleanupCalls times in a row
MaxCleanupCalls == 3
\* setup_cgroups is called on its own with cpu_percent in -1..MaxCpuPercent
MaxCpuPercent == 101
\* process ids in the host are drawn from 2..MaxPid
MaxPid == 4

\* ------------------------------------------------------ program constants
MinArgc == 4
DefaultCpuLimit == 50
DefaultMemoryLimit == 512 * 1024 * 1024
CpuPeriod == 100000
SetupPathSize == 256
CleanupPathSize == 512
ProcsPathSize == 300
ValueSize == 128
\* strlen("/sys/fs/cgroup/minirun-")
PrefixLen == 23
\* strlen("/cgroup.procs")
ProcsSuffixLen == 13

Invocations == {1, 2}
\* the invocations that are started in the single-invocation specification
Launched == {1}

Min(a, b) == IF a < b THEN a ELSE b

\* snprintf(buf, size, ...) keeps at most size-1 characters of a string of
\* length len
Snprintf(len, size) == Min(len, size - 1)

\* the directory the caller means: /sys/fs/cgroup/minirun-<name>, uncut
GroupDir(n) == PrefixLen + n
\* char cgroup_path[256] in setup_cgroups
SetupPath(n) == Snprintf(PrefixLen + n, SetupPathSize)
\* char cgroup_path[512] in cleanup_cgroups
CleanupPath(n) == Snprintf(PrefixLen + n, CleanupPathSize)
\* char cgroup_procs_path[300] in child_function: the directory whose
\* cgroup.procs the path names, or 0 when the file name itself was cut and
\* the path names no membership file at all
ProcsDir(n) ==
    IF Snprintf(PrefixLen + n + ProcsSuffixLen, ProcsPathSize)
           = PrefixLen + n + ProcsSuffixLen
    THEN PrefixLen + n
    ELSE 0

\* lengths of argv[1]: a short name, the longest name that fits the 256-byte
\* buffer of setup_cgroups, and the shortest one that does not
NameLens == {1, SetupPathSize - 1 - PrefixLen, SetupPathSize - PrefixLen}
PathLens == UNION {{GroupDir(n), SetupPath(n), CleanupPath(n)} : n \in NameLens}
PathsOf(n) == {GroupDir(n), SetupPath(n), CleanupPath(n)}

\* contents of a limit file: the characters written to it
DigitChars == << "0", "1", "2", "3", "4", "5", "6", "7", "8", "9" >>

\* printf's %ld
RECURSIVE Decimal(_)
Decimal(n) ==
    IF n < 0 THEN << "-" >> \o Decimal(0 - n)
    ELSE IF n < 10 THEN << DigitChars[n + 1] >>
    ELSE Decimal(n \div 10) \o << DigitChars[(n % 10) + 1] >>

\* snprintf(value, sizeof(value), ...) on the text s
SnprintfValue(s) == SubSeq(s, 1, Snprintf(Len(s), ValueSize))

\* the kernel default "max" (no limit)
Unlimited == << "m", "a", "x" >>
StaleMemoryMax == Decimal(64 * 1024 * 1024)
StaleCpuMax == Decimal(25 * 1000) \o << " " >> \o Decimal(CpuPeriod)

\* long cpu_max = (cpu_percent * 1000); the int product does not wrap for
\* |cpu_percent| <= 2147483, which covers every value the model uses
\* faulty variant: the percentage is scaled by 100 instead of 1000
CpuQuota_PerMille(cpu_percent) == cpu_percent * 100
CpuQuota(cpu_percent) == cpu_percent * 1000
\* snprintf(value, sizeof(value), "%ld", memory_limit_bytes)
MemoryValue(memory_limit_bytes) == SnprintfValue(Decimal(memory_limit_bytes))
\* snprintf(value, sizeof(value), "%ld %ld", cpu_max, cpu_period)
CpuValue(cpu_percent) ==
    SnprintfValue(Decimal(CpuQuota(cpu_percent)) \o << " " >> \o Decimal(CpuPeriod))

NoConfig == [name |-> 0, memory_limit |-> 0, cpu_limit |-> 0]

VARIABLES
    argc,             \* [Invocations -> Nat]   argument count of each invocation
    nameLen,          \* strlen(argv[1]), the container name all invocations use
    config,           \* ContainerConfig built by main (name kept as its length)
    pc,               \* supervisor position
    success,          \* local `success` of setup_cgroups
    cgroups_enabled,  \* main's cgroups_enabled: -1 before setup_cgroups returned
    child,            \* child position: none, join, chroot, mount, exec,
                      \*   running, exited, reaped
    childRoot,        \* "host" until chroot succeeded, then "rootfs"
    procMounted,      \* mount("proc", "/proc") succeeded
    childStatus,      \* exit status of the child, -1 while it has none
    exitCode,         \* return value of main, -1 while it has not returned
    hierarchy,        \* /sys/fs/cgroup/cgroup.controllers exists
    writable,         \* the invocations may create, write and remove in it
    dirs,             \* existing group directories (path lengths)
    memory_max,       \* [PathLens -> contents of memory.max]
    cpu_max,          \* [PathLens -> contents of cpu.max]
    procs,            \* [PathLens -> set of member processes]
    events,           \* [Invocations -> Seq(<<call, result>>)], history
    history,          \* TRUE when the calls are recorded in `events`
    tests,            \* state of the run of tests/unit/test_namespaces
    mounts            \* [shared |-> the host's mounts propagate to peers,
                      \*  host |-> mounts added to the host's mount table]

vars == << argc, nameLen, config, pc, success, cgroups_enabled, child,
           childRoot, procMounted, childStatus, exitCode, hierarchy, writable,
           dirs, memory_max, cpu_max, procs, events, history, tests,
           mounts >>

envVars == << hierarchy, writable, nameLen, argc, history, tests >>
hostVars == << envVars, mounts >>
fsVars == << dirs, memory_max, cpu_max, procs >>
childVars == << child, childRoot, procMounted, childStatus >>

Log(i, call, result) ==
    events' = IF history
              THEN [events EXCEPT ![i] = Append(@, << call, result >>)]
              ELSE events

Has(i, call, result) ==
    \E k \in 1..Len(events[i]) : events[i][k] = << call, result >>
Called(i, call) ==
    \E k \in 1..Len(events[i]) : events[i][k][1] = call
Count(i, call) ==
    Cardinality({k \in 1..Len(events[i]) : events[i][k][1] = call})
\* position of the first `call` in the history of i, 0 if there is none
First(i, call) ==
    IF Called(i, call)
    THEN CHOOSE k \in 1..Len(events[i]) :
            /\ events[i][k][1] = call
            /\ \A j \in 1..(k - 1) : events[i][j][1] # call
    ELSE 0

\* ------------------------------------------------------------------ Init
InitFiles ==
    /\ nameLen \in NameLens
    /\ hierarchy \in BOOLEAN
    /\ writable \in BOOLEAN
    \* groups a prior run of the same name left behind, with whatever limits
    \* it had written; none of them has a live member
    /\ dirs \in SUBSET PathsOf(nameLen)
    /\ hierarchy = FALSE => dirs = {}
    /\ memory_max \in [PathLens -> {Unlimited, StaleMemoryMax}]
    /\ cpu_max \in [PathLens -> {Unlimited, StaleCpuMax}]
    /\ \A p \in PathLens \ dirs : memory_max[p] = Unlimited /\ cpu_max[p] = Unlimited

InitHost ==
    /\ InitFiles
    /\ procs = [p \in PathLens |-> {}]

InitProcs(started) ==
    /\ argc \in [Invocations -> 1..MaxArgc]
    /\ \A i \in Invocations \ started : argc[i] = MinArgc
    /\ config = [i \in Invocations |-> NoConfig]
    /\ pc = [i \in Invocations |-> IF i \in started THEN "main" ELSE "idle"]
    /\ success = [i \in Invocations |-> 1]
    /\ cgroups_enabled = [i \in Invocations |-> -1]
    /\ child = [i \in Invocations |-> "none"]
    /\ childRoot = [i \in Invocations |-> "host"]
    /\ procMounted = [i \in Invocations |-> FALSE]
    /\ childStatus = [i \in Invocations |-> -1]
    /\ exitCode = [i \in Invocations |-> -1]
    /\ events = [i \in Invocations |-> << >>]

\* the test program is not running
NoTests ==
    [pc |-> "idle",        \* position of the runner's main
     euid |-> 0,           \* geteuid() of the runner
     self |-> 0,           \* pid of the runner
     test |-> 0,           \* the test function main is in, 1..3
     tests_passed |-> 0,   \* the runner's globals
     tests_failed |-> 0,
     child |-> "none",     \* position of the cloned child
     child_pid |-> 0,      \* clone's return value: the child's pid in the host
     child_passed |-> 0,   \* the child's copy of the globals (no CLONE_VM)
     child_failed |-> 0,
     pid |-> 0,            \* getpid() as the child saw it, 0 before the call
     ppid |-> 0,           \* getppid() as the child saw it
     tmp_dir |-> FALSE,    \* /tmp/minirun_test_mount exists
     child_mounts |-> {},  \* mounts the child added in its mount namespace
     parent_mounts |-> {}, \* mounts added to the runner's mount table
     status |-> "none",    \* how the child terminated: exited, signaled
     isolated |-> TRUE,    \* the child gets the PID namespace clone asks for
     failed_asserts |-> 0, \* ASSERTs that took the FAIL branch, in any process
     exit |-> -1]          \* return value of the runner's main

\* flags of the clone in main of the runtime
MainCloneFlags == {"CLONE_NEWPID", "CLONE_NEWNS", "SIGCHLD"}

\* a mount made by a process cloned with `flags` shows in the mount table
\* of its parent when the two share the mount namespace, or when the mount
\* under which it is made has shared propagation: CLONE_NEWNS copies the
\* mount table, peer groups included, and the child does not make its
\* mounts private before it mounts
Propagates(flags, shared) == "CLONE_NEWNS" \notin flags \/ shared

NoMounts == [shared |-> FALSE, host |-> {}]
InitMounts == mounts \in [shared : BOOLEAN, host : {{}}]

InitRecorded == history = TRUE /\ tests = NoTests

Init == InitHost /\ InitProcs(Launched) /\ InitRecorded /\ InitMounts

\* ------------------------------------------------------------ supervisor
\* faulty variant: the container is launched before any resource group is set up
Main_SkipSetup(i) ==
    /\ pc[i] = "main"
    /\ IF argc[i] < MinArgc
       THEN /\ pc' = [pc EXCEPT ![i] = "returned"]
            /\ exitCode' = [exitCode EXCEPT ![i] = 1]
            /\ Log(i, "main", "usage")
            /\ UNCHANGED config
       ELSE /\ config' = [config EXCEPT ![i] =
                            [name |-> nameLen,
                             memory_limit |-> DefaultMemoryLimit,
                             cpu_limit |-> DefaultCpuLimit]]
            /\ pc' = [pc EXCEPT ![i] = "malloc"]
            /\ Log(i, "main", "ok")
            /\ UNCHANGED exitCode
    /\ UNCHANGED << hostVars, fsVars, childVars, success, cgroups_enabled >>

\* faulty variant: the argument count is not checked
Main_NoArgCheck(i) ==
    /\ pc[i] = "main"
    /\ config' = [config EXCEPT ![i] =
                    [name |-> nameLen,
                     memory_limit |-> DefaultMemoryLimit,
                     cpu_limit |-> DefaultCpuLimit]]
    /\ pc' = [pc EXCEPT ![i] = "setup_access"]
    /\ Log(i, "main", "ok")
    /\ UNCHANGED << hostVars, fsVars, childVars, success, cgroups_enabled,
                    exitCode >>

\* main, lines 31-55: argument check and config
Main(i) ==
    /\ pc[i] = "main"
    /\ IF argc[i] < MinArgc
       THEN /\ pc' = [pc EXCEPT ![i] = "returned"]
            /\ exitCode' = [exitCode EXCEPT ![i] = 1]
            /\ Log(i, "main", "usage")
            /\ UNCHANGED config
       ELSE /\ config' = [config EXCEPT ![i] =
                            [name |-> nameLen,
                             memory_limit |-> DefaultMemoryLimit,
                             cpu_limit |-> DefaultCpuLimit]]
            /\ pc' = [pc EXCEPT ![i] = "setup_access"]
            /\ Log(i, "main", "ok")
            /\ UNCHANGED exitCode
    /\ UNCHANGED << hostVars, fsVars, childVars, success, cgroups_enabled >>

\* ---------------------------------------------------- write_cgroup_file
\* What can happen to fopen(path, "w"); fprintf; fclose on a file of the
\* group directory dir: "ok" (the value reached the file), "open_fail"
\* (fopen returned NULL), "write_fail" (fprintf returned < 0), "flush_fail"
\* (fprintf buffered the text, the kernel rejected it when fclose flushed).
\* Nothing can be opened in a directory that does not exist or that the
\* invocation may not write.
WriteOutcomes(dirExists) ==
    IF dirExists /\ writable
    THEN {"ok", "open_fail", "write_fail", "flush_fail"}
    ELSE {"open_fail"}

\* return value of write_cgroup_file: the result of fclose is not looked at
write_cgroup_file(outcome) ==
    IF outcome \in {"open_fail", "write_fail"} THEN -1 ELSE 0

\* contents of a file after the attempt
Written(old, value, outcome) == IF outcome = "ok" THEN value ELSE old

\* ---------------------------------------------------------- setup_cgroups
\* lines 146-160: entry, access("/sys/fs/cgroup/cgroup.controllers")
SetupAccess(i) ==
    /\ pc[i] = "setup_access"
    /\ IF hierarchy
       THEN /\ pc' = [pc EXCEPT ![i] = "setup_mkdir"]
            /\ success' = [success EXCEPT ![i] = 1]
            /\ Log(i, "access", "ok")
            /\ UNCHANGED cgroups_enabled
       ELSE /\ pc' = [pc EXCEPT ![i] = "malloc"]
            /\ cgroups_enabled' = [cgroups_enabled EXCEPT ![i] = 0]
            /\ Log(i, "access", "absent")
            /\ UNCHANGED success
    /\ UNCHANGED << hostVars, fsVars, childVars, config, exitCode >>

\* faulty variant: a failed mkdir ends the invocation with status 1
SetupMkdir_Fatal(i) ==
    LET path == SetupPath(config[i].name) IN
    /\ pc[i] = "setup_mkdir"
    /\ IF path \in dirs
       THEN /\ pc' = [pc EXCEPT ![i] = "setup_subtree"]
            /\ Log(i, "mkdir", "EEXIST")
            /\ UNCHANGED << fsVars, cgroups_enabled, exitCode >>
       ELSE IF writable
       THEN /\ dirs' = dirs \cup {path}
            /\ memory_max' = [memory_max EXCEPT ![path] = Unlimited]
            /\ cpu_max' = [cpu_max EXCEPT ![path] = Unlimited]
            /\ pc' = [pc EXCEPT ![i] = "setup_subtree"]
            /\ Log(i, "mkdir", "ok")
            /\ UNCHANGED << procs, cgroups_enabled, exitCode >>
       ELSE /\ pc' = [pc EXCEPT ![i] = "returned"]
            /\ cgroups_enabled' = [cgroups_enabled EXCEPT ![i] = 0]
            /\ exitCode' = [exitCode EXCEPT ![i] = 1]
            /\ Log(i, "mkdir", "EACCES")
            /\ UNCHANGED fsVars
    /\ UNCHANGED << hostVars, childVars, config, success >>

\* faulty variant: after a failed mkdir the limits are written all the same
SetupMkdir_FallsThrough(i) ==
    LET path == SetupPath(config[i].name) IN
    /\ pc[i] = "setup_mkdir"
    /\ IF path \in dirs
       THEN /\ Log(i, "mkdir", "EEXIST")
            /\ UNCHANGED fsVars
       ELSE IF writable
       THEN /\ dirs' = dirs \cup {path}
            /\ memory_max' = [memory_max EXCEPT ![path] = Unlimited]
            /\ cpu_max' = [cpu_max EXCEPT ![path] = Unlimited]
            /\ Log(i, "mkdir", "ok")
            /\ UNCHANGED procs
       ELSE /\ Log(i, "mkdir", "EACCES")
            /\ UNCHANGED fsVars
    /\ pc' = [pc EXCEPT ![i] = "setup_subtree"]
    /\ UNCHANGED << hostVars, childVars, config, exitCode, success,
                    cgroups_enabled >>

\* lines 162-167: mkdir(cgroup_path, 0755), EEXIST is reuse
SetupMkdir(i) ==
    LET path == SetupPath(config[i].name) IN
    /\ pc[i] = "setup_mkdir"
    /\ IF path \in dirs
       THEN /\ pc' = [pc EXCEPT ![i] = "setup_subtree"]
            /\ Log(i, "mkdir", "EEXIST")
            /\ UNCHANGED << fsVars, cgroups_enabled >>
       ELSE IF writable
       THEN /\ dirs' = dirs \cup {path}
            /\ memory_max' = [memory_max EXCEPT ![path] = Unlimited]
            /\ cpu_max' = [cpu_max EXCEPT ![path] = Unlimited]
            /\ pc' = [pc EXCEPT ![i] = "setup_subtree"]
            /\ Log(i, "mkdir", "ok")
            /\ UNCHANGED << procs, cgroups_enabled >>
       ELSE /\ pc' = [pc EXCEPT ![i] = "malloc"]
            /\ cgroups_enabled' = [cgroups_enabled EXCEPT ![i] = 0]
            /\ Log(i, "mkdir", "EACCES")
            /\ UNCHANGED fsVars
    /\ UNCHANGED << hostVars, childVars, config, exitCode, success >>

\* lines 169-174: "+cpu +memory" to the parent's cgroup.subtree_control;
\* the result is not used
SetupSubtree(i) ==
    /\ pc[i] = "setup_subtree"
    /\ \E outcome \in WriteOutcomes(hierarchy) :
          Log(i, "write_subtree", outcome)
    /\ pc' = [pc EXCEPT ![i] = "setup_memory"]
    /\ UNCHANGED << hostVars, fsVars, childVars, config, exitCode, success,
                    cgroups_enabled >>

\* lines 176-184: memory.max
SetupMemory(i) ==
    LET path == SetupPath(config[i].name) IN
    /\ pc[i] = "setup_memory"
    /\ \E outcome \in WriteOutcomes(path \in dirs) :
          /\ memory_max' = [memory_max EXCEPT ![path] =
                Written(@, MemoryValue(config[i].memory_limit), outcome)]
          /\ success' = [success EXCEPT ![i] =
                IF write_cgroup_file(outcome) # 0 THEN 0 ELSE @]
          /\ Log(i, "write_memory", outcome)
    /\ pc' = [pc EXCEPT ![i] = "setup_cpu"]
    /\ UNCHANGED << hostVars, dirs, cpu_max, procs, childVars, config,
                    exitCode, cgroups_enabled >>

\* lines 186-210: cpu.max, then return success
SetupCpu(i) ==
    LET path == SetupPath(config[i].name) IN
    /\ pc[i] = "setup_cpu"
    /\ \E outcome \in WriteOutcomes(path \in dirs) :
          /\ cpu_max' = [cpu_max EXCEPT ![path] =
                Written(@, CpuValue(config[i].cpu_limit), outcome)]
          /\ success' = [success EXCEPT ![i] =
                IF write_cgroup_file(outcome) # 0 THEN 0 ELSE @]
          /\ Log(i, "write_cpu", outcome)
    /\ cgroups_enabled' = [cgroups_enabled EXCEPT ![i] = success'[i]]
    /\ pc' = [pc EXCEPT ![i] = "malloc"]
    /\ UNCHANGED << hostVars, dirs, memory_max, procs, childVars, config,
                    exitCode >>

\* -------------------------------------------------------- cleanup_cgroups
\* what rmdir(path) answers
Rmdir(path) ==
    IF path \notin dirs THEN "ENOENT"
    ELSE IF ~writable THEN "EACCES"
    ELSE IF procs[path] # {} THEN "EBUSY"
    ELSE "ok"

\* faulty variant: a populated group is emptied by the first call and only
\* removed by the next one
cleanup_cgroups_Evicts(i) ==
    LET path == CleanupPath(config[i].name) IN
    /\ IF Rmdir(path) = "ok"
       THEN /\ dirs' = dirs \ {path}
            /\ memory_max' = [memory_max EXCEPT ![path] = Unlimited]
            /\ cpu_max' = [cpu_max EXCEPT ![path] = Unlimited]
            /\ UNCHANGED procs
       ELSE /\ procs' = [p \in PathLens |-> IF p = path THEN {} ELSE procs[p]]
            /\ UNCHANGED << dirs, memory_max, cpu_max >>
    /\ Log(i, "cleanup_cgroups", Rmdir(path))

\* faulty variant: cleanup_cgroups is called but removes nothing
cleanup_cgroups_KeepsDir(i) ==
    /\ Log(i, "cleanup_cgroups", "skipped")
    /\ UNCHANGED fsVars

\* lines 220-231: rmdir of the group directory, every failure ignored
cleanup_cgroups(i) ==
    LET path == CleanupPath(config[i].name) IN
    /\ IF Rmdir(path) = "ok"
       THEN /\ dirs' = dirs \ {path}
            /\ memory_max' = [memory_max EXCEPT ![path] = Unlimited]
            /\ cpu_max' = [cpu_max EXCEPT ![path] = Unlimited]
       ELSE UNCHANGED << dirs, memory_max, cpu_max >>
    /\ Log(i, "cleanup_cgroups", Rmdir(path))
    /\ UNCHANGED procs

\* cleanup_cgroups(name) called on its own, several times in a row, on a
\* hierarchy in any state: the group absent, empty, or still populated by a
\* process of another invocation
InitCleanupCalls ==
    /\ InitFiles
    /\ InitRecorded
    /\ mounts = NoMounts
    /\ procs \in [PathLens -> SUBSET (Invocations \ Launched)]
    /\ \A p \in PathLens \ dirs : procs[p] = {}
    /\ \A p, q \in PathLens : p # q => procs[p] \cap procs[q] = {}
    /\ argc = [i \in Invocations |-> MinArgc]
    /\ config = [i \in Invocations |->
                    IF i \in Launched
                    THEN [name |-> nameLen,
                          memory_limit |-> DefaultMemoryLimit,
                          cpu_limit |-> DefaultCpuLimit]
                    ELSE NoConfig]
    /\ pc = [i \in Invocations |-> IF i \in Launched THEN "cleanup_calls" ELSE "idle"]
    /\ success = [i \in Invocations |-> 1]
    /\ cgroups_enabled = [i \in Invocations |-> -1]
    /\ child = [i \in Invocations |-> "none"]
    /\ childRoot = [i \in Invocations |-> "host"]
    /\ procMounted = [i \in Invocations |-> FALSE]
    /\ childStatus = [i \in Invocations |-> -1]
    /\ exitCode = [i \in Invocations |-> -1]
    /\ events = [i \in Invocations |-> << >>]

CleanupCall(i) ==
    /\ pc[i] = "cleanup_calls"
    /\ Count(i, "cleanup_cgroups") < MaxCleanupCalls
    /\ cleanup_cgroups(i)
    /\ UNCHANGED << hostVars, childVars, config, pc, success, cgroups_enabled,
                    exitCode >>

SpecCleanup ==
    InitCleanupCalls /\ [][\E i \in Invocations : CleanupCall(i)]_vars

\* setup_cgroups(name, memory_limit_bytes, cpu_percent) called on its own
\* with any cpu_percent, on a hierarchy in any state
CpuInputs == (0 - 1)..MaxCpuPercent

InitSetupCalls ==
    /\ InitHost
    /\ InitRecorded
    /\ mounts = NoMounts
    /\ argc = [i \in Invocations |-> MinArgc]
    /\ config \in [Invocations ->
                    [name : {0, nameLen},
                     memory_limit : {0, DefaultMemoryLimit},
                     cpu_limit : {0} \cup CpuInputs]]
    /\ \A i \in Launched :
          config[i].name = nameLen /\ config[i].memory_limit = DefaultMemoryLimit
    /\ \A i \in Invocations \ Launched : config[i] = NoConfig
    /\ pc = [i \in Invocations |-> IF i \in Launched THEN "setup_access" ELSE "idle"]
    /\ success = [i \in Invocations |-> 1]
    /\ cgroups_enabled = [i \in Invocations |-> -1]
    /\ child = [i \in Invocations |-> "none"]
    /\ childRoot = [i \in Invocations |-> "host"]
    /\ procMounted = [i \in Invocations |-> FALSE]
    /\ childStatus = [i \in Invocations |-> -1]
    /\ exitCode = [i \in Invocations |-> -1]
    /\ events = [i \in Invocations |-> << >>]

setup_cgroups(i) ==
    \/ SetupAccess(i)
    \/ SetupMkdir(i)
    \/ SetupSubtree(i)
    \/ SetupMemory(i)
    \/ SetupCpu(i)

SpecSetup ==
    InitSetupCalls /\ [][\E i \in Invocations : setup_cgroups(i)]_vars

\* ------------------------------------------------- main, after the setup
\* lines 63-66: malloc of the child's stack
Malloc(i) ==
    /\ pc[i] = "malloc"
    /\ \E ok \in BOOLEAN :
          /\ pc' = [pc EXCEPT ![i] = IF ok THEN "clone" ELSE "malloc_failed"]
          /\ Log(i, "malloc", IF ok THEN "ok" ELSE "fail")
    /\ UNCHANGED << hostVars, fsVars, childVars, config, success,
                    cgroups_enabled, exitCode >>

\* faulty variant: the malloc failure path returns without cleanup
MallocFailed_NoCleanup(i) ==
    /\ pc[i] = "malloc_failed"
    /\ pc' = [pc EXCEPT ![i] = "returned"]
    /\ exitCode' = [exitCode EXCEPT ![i] = 1]
    /\ Log(i, "return", 1)
    /\ UNCHANGED << hostVars, fsVars, childVars, config, success,
                    cgroups_enabled >>

\* lines 67-69: perror, cleanup_cgroups, return 1
MallocFailed(i) ==
    /\ pc[i] = "malloc_failed"
    /\ cleanup_cgroups(i)
    /\ pc' = [pc EXCEPT ![i] = "returned"]
    /\ exitCode' = [exitCode EXCEPT ![i] = 1]
    /\ UNCHANGED << hostVars, childVars, config, success, cgroups_enabled >>

\* lines 76-84: clone(child_function, ..., CLONE_NEWPID | CLONE_NEWNS |
\* SIGCHLD, &config); the child starts at the top of child_function
Clone(i) ==
    /\ pc[i] = "clone"
    /\ \E ok \in BOOLEAN :
          IF ok
          THEN /\ child' = [child EXCEPT ![i] = "join"]
               /\ pc' = [pc EXCEPT ![i] = "waitpid"]
               /\ Log(i, "clone", "ok")
          ELSE /\ pc' = [pc EXCEPT ![i] = "clone_failed"]
               /\ Log(i, "clone", "fail")
               /\ UNCHANGED child
    /\ UNCHANGED << hostVars, fsVars, childRoot, procMounted, childStatus,
                    config, success, cgroups_enabled, exitCode >>

\* lines 85-88: perror, free, cleanup_cgroups, return 1
CloneFailed(i) ==
    /\ pc[i] = "clone_failed"
    /\ cleanup_cgroups(i)
    /\ pc' = [pc EXCEPT ![i] = "returned"]
    /\ exitCode' = [exitCode EXCEPT ![i] = 1]
    /\ UNCHANGED << hostVars, childVars, config, success, cgroups_enabled >>

\* faulty variant: main does not wait for the child to terminate
Waitpid_NoBlock(i) ==
    /\ pc[i] = "waitpid"
    /\ pc' = [pc EXCEPT ![i] = "stopped"]
    /\ Log(i, "waitpid", "ok")
    /\ UNCHANGED << hostVars, fsVars, childVars, config, success,
                    cgroups_enabled, exitCode >>

\* lines 94-99: waitpid(child_pid, &status, 0) returns once the child has
\* terminated; status is not read afterwards
Waitpid(i) ==
    /\ pc[i] = "waitpid"
    /\ child[i] = "exited"
    /\ child' = [child EXCEPT ![i] = "reaped"]
    /\ pc' = [pc EXCEPT ![i] = "stopped"]
    /\ Log(i, "waitpid", "ok")
    /\ UNCHANGED << hostVars, fsVars, childRoot, procMounted, childStatus,
                    config, success, cgroups_enabled, exitCode >>

\* faulty variant: main returns the status the child exited with
Stopped_ReturnsStatus(i) ==
    /\ pc[i] = "stopped"
    /\ cleanup_cgroups(i)
    /\ pc' = [pc EXCEPT ![i] = "returned"]
    /\ exitCode' = [exitCode EXCEPT ![i] = childStatus[i]]
    /\ UNCHANGED << hostVars, childVars, config, success, cgroups_enabled >>

\* lines 101-105: free, cleanup_cgroups, return 0
Stopped(i) ==
    /\ pc[i] = "stopped"
    /\ cleanup_cgroups(i)
    /\ pc' = [pc EXCEPT ![i] = "returned"]
    /\ exitCode' = [exitCode EXCEPT ![i] = 0]
    /\ UNCHANGED << hostVars, childVars, config, success, cgroups_enabled >>

\* -------------------------------------------------------- child_function
\* a terminated process is no member of any group
LeaveGroups(i) == procs' = [p \in PathLens |-> procs[p] \ {i}]

\* lines 242-263: write the pid to cgroup.procs; every outcome continues
Join(i) ==
    LET dir == ProcsDir(config[i].name) IN
    /\ child[i] = "join"
    /\ \E outcome \in WriteOutcomes(dir \in dirs) :
          /\ IF outcome = "ok"
             THEN procs' = [p \in PathLens |->
                              IF p = dir THEN procs[p] \cup {i}
                                         ELSE procs[p] \ {i}]
             ELSE UNCHANGED procs
          /\ Log(i, "join", outcome)
    /\ child' = [child EXCEPT ![i] = "chroot"]
    /\ UNCHANGED << hostVars, dirs, memory_max, cpu_max, childRoot,
                    procMounted, childStatus, config, pc, success,
                    cgroups_enabled, exitCode >>

\* faulty variant: a failed chroot is reported but the child goes on
Chroot_IgnoresFailure(i) ==
    /\ child[i] = "chroot"
    /\ \E ok \in BOOLEAN :
          /\ childRoot' = [childRoot EXCEPT ![i] = IF ok THEN "rootfs" ELSE @]
          /\ Log(i, "chroot", IF ok THEN "ok" ELSE "fail")
    /\ child' = [child EXCEPT ![i] = "mount"]
    /\ UNCHANGED << hostVars, fsVars, procMounted, childStatus, config, pc,
                    success, cgroups_enabled, exitCode >>

\* lines 265-272: chroot(config->rootfs_path), return 1 on failure; chdir("/")
Chroot(i) ==
    /\ child[i] = "chroot"
    /\ \E ok \in BOOLEAN :
          IF ok
          THEN /\ childRoot' = [childRoot EXCEPT ![i] = "rootfs"]
               /\ child' = [child EXCEPT ![i] = "mount"]
               /\ Log(i, "chroot", "ok")
               /\ UNCHANGED << childStatus, procs >>
          ELSE /\ child' = [child EXCEPT ![i] = "exited"]
               /\ childStatus' = [childStatus EXCEPT ![i] = 1]
               /\ LeaveGroups(i)
               /\ Log(i, "chroot", "fail")
               /\ UNCHANGED childRoot
    /\ UNCHANGED << hostVars, dirs, memory_max, cpu_max, procMounted, config,
                    pc, success, cgroups_enabled, exitCode >>

\* faulty variant: a failed mount of /proc ends the child with status 1
MountProc_Fatal(i) ==
    /\ child[i] = "mount"
    /\ \E ok \in BOOLEAN :
          IF ok
          THEN /\ procMounted' = [procMounted EXCEPT ![i] = TRUE]
               /\ mounts' = IF Propagates(MainCloneFlags, mounts.shared)
                            THEN [mounts EXCEPT !.host = @ \cup {"proc"}]
                            ELSE mounts
               /\ child' = [child EXCEPT ![i] = "exec"]
               /\ Log(i, "mount", "ok")
               /\ UNCHANGED << childStatus, procs >>
          ELSE /\ child' = [child EXCEPT ![i] = "exited"]
               /\ childStatus' = [childStatus EXCEPT ![i] = 1]
               /\ LeaveGroups(i)
               /\ Log(i, "mount", "fail")
               /\ UNCHANGED << procMounted, mounts >>
    /\ UNCHANGED << envVars, dirs, memory_max, cpu_max, childRoot, config,
                    pc, success, cgroups_enabled, exitCode >>

\* lines 274-280: mount("proc", "/proc", "proc", 0, NULL), failure is a warning
MountProc(i) ==
    /\ child[i] = "mount"
    /\ \E ok \in BOOLEAN :
          /\ procMounted' = [procMounted EXCEPT ![i] = ok]
          /\ mounts' = IF ok /\ Propagates(MainCloneFlags, mounts.shared)
                       THEN [mounts EXCEPT !.host = @ \cup {"proc"}]
                       ELSE mounts
          /\ Log(i, "mount", IF ok THEN "ok" ELSE "fail")
    /\ child' = [child EXCEPT ![i] = "exec"]
    /\ UNCHANGED << envVars, fsVars, childRoot, childStatus, config, pc,
                    success, cgroups_enabled, exitCode >>

\* lines 282-287: execl("/bin/bash", "bash", "-c", config->command, NULL);
\* return 1 if it comes back
Execl(i) ==
    /\ child[i] = "exec"
    /\ \E ok \in BOOLEAN :
          IF ok
          THEN /\ child' = [child EXCEPT ![i] = "running"]
               /\ Log(i, "execl", "ok")
               /\ UNCHANGED << childStatus, procs >>
          ELSE /\ child' = [child EXCEPT ![i] = "exited"]
               /\ childStatus' = [childStatus EXCEPT ![i] = 1]
               /\ LeaveGroups(i)
               /\ Log(i, "execl", "fail")
    /\ UNCHANGED << hostVars, dirs, memory_max, cpu_max, childRoot,
                    procMounted, config, pc, success, cgroups_enabled,
                    exitCode >>

\* the command that replaced the child's image terminates with a status
CommandExit(i) ==
    /\ child[i] = "running"
    /\ \E s \in 0..MaxStatus :
          /\ childStatus' = [childStatus EXCEPT ![i] = s]
          /\ Log(i, "exit", s)
    /\ child' = [child EXCEPT ![i] = "exited"]
    /\ LeaveGroups(i)
    /\ UNCHANGED << hostVars, dirs, memory_max, cpu_max, childRoot,
                    procMounted, config, pc, success, cgroups_enabled,
                    exitCode >>

\* ------------------------------------------------------------------ Next
Supervisor(i) ==
    \/ Main(i)
    \/ SetupAccess(i)
    \/ SetupMkdir(i)
    \/ SetupSubtree(i)
    \/ SetupMemory(i)
    \/ SetupCpu(i)
    \/ Malloc(i)
    \/ MallocFailed(i)
    \/ Clone(i)
    \/ CloneFailed(i)
    \/ Waitpid(i)
    \/ Stopped(i)

Child(i) ==
    \/ Join(i)
    \/ Chroot(i)
    \/ MountProc(i)
    \/ Execl(i)
    \/ CommandExit(i)

Next == \E i \in Invocations : Supervisor(i) \/ Child(i)

Spec == Init /\ [][Next]_vars

\* a started step is finished, a blocked waitpid is served once the child
\* has terminated, and the command terminates
FairSpec == Spec /\ \A i \in Invocations : WF_vars(Supervisor(i) \/ Child(i))

\* ----------------------------------------- tests/unit/test_namespaces.c
\* flags of the clone in the three test functions
TestCloneFlags(test) ==
    CASE test = 1 -> {"CLONE_NEWPID", "SIGCHLD"}
      [] test = 2 -> {"CLONE_NEWNS", "SIGCHLD"}
      [] test = 3 -> {"CLONE_NEWPID", "CLONE_NEWNS", "SIGCHLD"}

\* getpid() and getppid() in a process cloned with `flags` whose pid in the
\* host is hostPid and whose parent's is parentPid: the first process of a
\* new PID namespace is 1 there and its parent is not visible
getpid_Host(flags, hostPid) == hostPid
getpid(flags, hostPid) == IF "CLONE_NEWPID" \in flags THEN 1 ELSE hostPid
getppid(flags, parentPid) == IF "CLONE_NEWPID" \in flags THEN 0 ELSE parentPid

HostPids == 2..MaxPid

\* the ASSERT macro on the globals of the runner and on the child's copy
ASSERT(condition, t) ==
    IF condition THEN [t EXCEPT !.tests_passed = @ + 1]
                 ELSE [t EXCEPT !.tests_failed = @ + 1, !.failed_asserts = @ + 1]
ChildASSERT(condition, t) ==
    IF condition THEN [t EXCEPT !.child_passed = @ + 1]
                 ELSE [t EXCEPT !.child_failed = @ + 1, !.failed_asserts = @ + 1]

\* the namespaces the child of the current test is in
ChildFlags(t) ==
    IF t.isolated THEN TestCloneFlags(t.test)
                  ELSE TestCloneFlags(t.test) \ {"CLONE_NEWPID"}

runtimeVars == << argc, nameLen, config, pc, success, cgroups_enabled, child,
                  childRoot, procMounted, childStatus, exitCode, hierarchy,
                  writable, dirs, memory_max, cpu_max, procs, events, history,
                  mounts >>

\* the runner alone on the machine, started as root or as another user
InitTestRun(isolation) ==
    /\ InitHost
    /\ hierarchy = FALSE /\ writable = FALSE
    /\ nameLen = 1
    /\ InitProcs({})
    /\ history = TRUE
    /\ InitMounts
    /\ \E e \in 0..1, s \in HostPids, n \in isolation :
          tests = [NoTests EXCEPT !.pc = "main", !.euid = e, !.self = s,
                                  !.isolated = n]

\* the kernel isolates the child as clone was asked to
InitTests == InitTestRun({TRUE})
\* the runner on a system under test that may fail to isolate: what the
\* ASSERTs of the entry points are there to detect
InitTestsAnySystem == InitTestRun(BOOLEAN)

\* lines 219-229: main refuses to run unless geteuid() is 0
TestMain ==
    /\ tests.pc = "main"
    /\ tests' = IF tests.euid # 0
                THEN [tests EXCEPT !.pc = "returned", !.exit = 1]
                ELSE [tests EXCEPT !.pc = "malloc", !.test = 1]
    /\ UNCHANGED runtimeVars

\* return from a test function: main calls the next one, then sums up
TestReturn(t) ==
    IF t.test < 3 THEN [t EXCEPT !.pc = "malloc", !.test = @ + 1]
                  ELSE [t EXCEPT !.pc = "summary"]

\* lines 95-100, 135-140, 183-188: malloc of the child's stack
TestMalloc ==
    /\ tests.pc = "malloc"
    /\ \E ok \in BOOLEAN :
          tests' = IF ok
                   THEN [tests EXCEPT !.pc = "clone"]
                   ELSE TestReturn([tests EXCEPT !.tests_failed = @ + 1])
    /\ UNCHANGED runtimeVars

\* lines 103-118, 142-157, 191-206: clone; the child starts with a copy of
\* the globals; ASSERT(child_pid > 0)
TestClone ==
    /\ tests.pc = "clone"
    /\ \/ tests' = TestReturn([tests EXCEPT !.tests_failed = @ + 1])
       \/ \E p \in HostPids \ {tests.self} :
             tests' = ASSERT(p > 0,
                        [tests EXCEPT !.pc = "waitpid",
                                      !.child = "entry",
                                      !.child_pid = p,
                                      !.child_passed = tests.tests_passed,
                                      !.child_failed = tests.tests_failed,
                                      !.pid = 0, !.ppid = 0,
                                      !.status = "none"])
    /\ UNCHANGED runtimeVars

\* lines 39-52: the entry point of test 1
test_pid_namespace ==
    /\ tests.child = "entry" /\ tests.test = 1
    /\ LET flags == ChildFlags(tests)
           pid == getpid(flags, tests.child_pid)
           ppid == getppid(flags, tests.self)
       IN  tests' = [ChildASSERT(ppid = 0, ChildASSERT(pid = 1, tests))
                        EXCEPT !.pid = pid, !.ppid = ppid,
                               !.child = "exited", !.status = "exited"]
    /\ UNCHANGED runtimeVars

\* lines 170-178: the entry point of test 3
test_combined_namespaces ==
    /\ tests.child = "entry" /\ tests.test = 3
    /\ LET pid == getpid(ChildFlags(tests), tests.child_pid)
       IN  tests' = [ChildASSERT(pid = 1, tests)
                        EXCEPT !.pid = pid,
                               !.child = "exited", !.status = "exited"]
    /\ UNCHANGED runtimeVars

\* lines 58-69: the entry point of test 2 creates its mount point
test_mount_namespace_mkdir ==
    /\ tests.child = "entry" /\ tests.test = 2
    /\ \E ok \in BOOLEAN :
          tests' = IF ok \/ tests.tmp_dir
                   THEN [tests EXCEPT !.tmp_dir = TRUE, !.child = "mount"]
                   ELSE [tests EXCEPT !.child = "exited", !.status = "exited"]
    /\ UNCHANGED runtimeVars

\* lines 72-80: mount tmpfs; ASSERT(1) when it succeeded
test_mount_namespace_mount ==
    /\ tests.child = "mount"
    /\ \E ok \in BOOLEAN :
          tests' = IF ok
                   THEN [ChildASSERT(TRUE, tests)
                            EXCEPT !.child_mounts = @ \cup {"tmpfs"},
                                   !.parent_mounts =
                                      IF Propagates(TestCloneFlags(tests.test),
                                                    mounts.shared)
                                      THEN @ \cup {"tmpfs"} ELSE @,
                                   !.child = "umount"]
                   ELSE [tests EXCEPT !.child = "rmdir"]
    /\ UNCHANGED runtimeVars

\* line 76: umount(test_path)
test_mount_namespace_umount ==
    /\ tests.child = "umount"
    /\ tests' = [tests EXCEPT !.child_mounts = @ \ {"tmpfs"},
                              !.parent_mounts =
                                 IF Propagates(TestCloneFlags(tests.test),
                                               mounts.shared)
                                 THEN @ \ {"tmpfs"} ELSE @,
                              !.child = "rmdir"]
    /\ UNCHANGED runtimeVars

\* lines 83-85: rmdir(test_path); return 0
test_mount_namespace_rmdir ==
    /\ tests.child = "rmdir"
    /\ tests' = [tests EXCEPT !.tmp_dir = FALSE,
                              !.child = "exited", !.status = "exited"]
    /\ UNCHANGED runtimeVars

\* the child is terminated by a signal before its entry point returns
TestChildKilled ==
    /\ tests.child \in {"entry", "mount", "umount", "rmdir"}
    /\ tests' = [tests EXCEPT !.child = "exited", !.status = "signaled",
                              !.child_mounts = {}]
    /\ UNCHANGED runtimeVars

\* lines 121-126, 159-164, 208-213: waitpid; ASSERT(WIFEXITED(status))
TestWaitpid ==
    /\ tests.pc = "waitpid"
    /\ tests.child = "exited"
    /\ tests' = TestReturn(ASSERT(tests.status = "exited",
                                  [tests EXCEPT !.child = "reaped"]))
    /\ UNCHANGED runtimeVars

\* lines 236-249: the summary and the return value
TestSummary ==
    /\ tests.pc = "summary"
    /\ tests' = [tests EXCEPT !.pc = "returned",
                              !.exit = IF tests.tests_failed > 0 THEN 1 ELSE 0]
    /\ UNCHANGED runtimeVars

NextTests ==
    \/ TestMain
    \/ TestMalloc
    \/ TestClone
    \/ test_pid_namespace
    \/ test_combined_namespaces
    \/ test_mount_namespace_mkdir
    \/ test_mount_namespace_mount
    \/ test_mount_namespace_umount
    \/ test_mount_namespace_rmdir
    \/ TestChildKilled
    \/ TestWaitpid
    \/ TestSummary

SpecTests == InitTests /\ [][NextTests]_vars

SpecTestsAnySystem == InitTestsAnySystem /\ [][NextTests]_vars

\* two invocations started with the same name on a host whose hierarchy is
\* mounted, writable and holds no group of that name; the calls are not
\* recorded
InitRace ==
    /\ InitHost
    /\ hierarchy /\ writable
    /\ nameLen = 1
    /\ dirs = {}
    /\ InitProcs(Invocations)
    /\ argc = [i \in Invocations |-> MinArgc]
    /\ history = FALSE
    /\ tests = NoTests
    /\ InitMounts

SpecRace == InitRace /\ [][Next]_vars

\* ================================================================ claims
Returned(i) == pc[i] = "returned"
\* main returned after the container it launched had terminated
Terminated(i) == Returned(i) /\ child[i] = "reaped"

\* C1 (as stated): once main has returned after the container terminated,
\* the directory /sys/fs/cgroup/minirun-<name> does not exist, whatever
\* provisioning did.
C1_CleanupProperty ==
    \A i \in Invocations : Terminated(i) => GroupDir(nameLen) \notin dirs

\* C1 (amended): once main has returned after the container terminated,
\* cleanup_cgroups has run exactly once, and /sys/fs/cgroup/minirun-<name>
\* does not exist unless the invocation is not permitted to modify the
\* hierarchy (the directory was left by an earlier run and rmdir was refused).
C1_CleanupUnlessRefused ==
    \A i \in Invocations :
        Terminated(i) =>
            /\ Count(i, "cleanup_cgroups") = 1
            /\ GroupDir(nameLen) \in dirs => ~writable

C1_Witness ==
    \E i \in Invocations :
        /\ Terminated(i)
        /\ Has(i, "mkdir", "ok")
        /\ cgroups_enabled[i] = 0
        /\ Has(i, "cleanup_cgroups", "ok")
        /\ GroupDir(nameLen) \notin dirs

\* C2: when chroot fails in the child, the child exits non-zero, the parent
\* still runs cleanup_cgroups, and main returns a non-zero status.
C2_ChrootFailureReported ==
    \A i \in Invocations :
        Returned(i) /\ Has(i, "chroot", "fail") =>
            /\ childStatus[i] # 0
            /\ Called(i, "cleanup_cgroups")
            /\ exitCode[i] # 0

\* C3: when cgroup.controllers is absent, setup_cgroups returns 0, the
\* container is still launched, and main returns the command's own status.
C3_DegradedModeStatus ==
    \A i \in Invocations :
        ~hierarchy =>
            /\ cgroups_enabled[i] \in {-1, 0}
            /\ Called(i, "mkdir") = FALSE
            /\ Returned(i) /\ Called(i, "exit") => exitCode[i] = childStatus[i]

\* C4: in the parent setup_cgroups (and the mkdir in it) precedes clone; in
\* the child join, chroot, mount, execl happen in this order, each at most
\* once, none without its predecessor.
Before(i, a, b) == Called(i, b) => Called(i, a) /\ First(i, a) < First(i, b)
C4_Ordering ==
    \A i \in Invocations :
        /\ Before(i, "access", "clone")
        /\ Called(i, "mkdir") /\ Called(i, "clone")
              => First(i, "mkdir") < First(i, "clone")
        /\ Before(i, "clone", "join")
        /\ Before(i, "join", "chroot")
        /\ Before(i, "chroot", "mount")
        /\ Before(i, "mount", "execl")
        /\ \A c \in {"access", "mkdir", "clone", "join", "chroot", "mount", "execl"} :
              Count(i, c) <= 1

C4_Witness ==
    \E i \in Invocations :
        /\ Has(i, "mkdir", "ok")
        /\ Has(i, "join", "ok")
        /\ Has(i, "execl", "ok")

\* C5: if chroot fails the child neither mounts procfs nor calls execl; the
\* command never runs in a process whose root is still the host's.
C5_NoExecUnderHostRoot ==
    \A i \in Invocations :
        /\ Has(i, "chroot", "fail")
              => ~Called(i, "mount") /\ ~Called(i, "execl") /\ child[i] # "running"
        /\ Called(i, "mount") \/ Called(i, "execl") \/ child[i] = "running"
              => childRoot[i] = "rootfs"

C5_Witness ==
    \E i \in Invocations : Has(i, "chroot", "fail") /\ Returned(i)

\* C6: every invocation that passed the argument check calls cleanup_cgroups
\* exactly once before it returns (after a failed setup, a failed malloc, a
\* failed clone, or the child's exit), never more than once, and given that
\* the child terminates it does return.
C6_CleanupExactlyOnce ==
    /\ [](\A i \in Invocations :
            /\ Count(i, "cleanup_cgroups") <= 1
            /\ Returned(i) /\ argc[i] >= MinArgc
                  => Count(i, "cleanup_cgroups") = 1)
    /\ \A i \in Invocations : Called(i, "main") ~> Returned(i)

C6_Witness ==
    \E i \in Invocations :
        /\ Returned(i)
        /\ cgroups_enabled[i] = 0
        /\ Has(i, "malloc", "fail")
        /\ Count(i, "cleanup_cgroups") = 1

\* C7: if clone fails there is no child, the supervisor never waits, it runs
\* cleanup, which removes the group directory this invocation created, and
\* main returns 1.
C7_CloneFailure ==
    \A i \in Invocations :
        Returned(i) /\ Has(i, "clone", "fail") =>
            /\ child[i] = "none"
            /\ ~Called(i, "waitpid")
            /\ Count(i, "cleanup_cgroups") = 1
            /\ exitCode[i] = 1
            /\ Has(i, "mkdir", "ok") => SetupPath(config[i].name) \notin dirs

\* C8: no failure of provisioning or of join aborts the container: once
\* setup_cgroups has returned, with either result, the supervisor is at or
\* past malloc, after a successful malloc it is at or past clone, a return
\* with status 1 is due only to the argument check, malloc or clone, and the
\* child is at or past chroot once join was attempted, whatever its outcome.
C8_ResourceFailuresNeverAbort ==
    \A i \in Invocations :
        /\ cgroups_enabled[i] # -1 => pc[i] = "malloc" \/ Called(i, "malloc")
        /\ Has(i, "malloc", "ok") => pc[i] = "clone" \/ Called(i, "clone")
        /\ Returned(i) /\ exitCode[i] = 1
              => \/ argc[i] < MinArgc
                 \/ Has(i, "malloc", "fail")
                 \/ Has(i, "clone", "fail")
        /\ Called(i, "join") => child[i] = "chroot" \/ Called(i, "chroot")
        /\ Has(i, "chroot", "ok") => child[i] = "mount" \/ Called(i, "mount")
        /\ Called(i, "mount") => child[i] = "exec" \/ Called(i, "execl")

C8_Witness ==
    \E i \in Invocations :
        /\ Has(i, "mkdir", "EACCES")
        /\ cgroups_enabled[i] = 0
        /\ Has(i, "join", "open_fail")
        /\ child[i] = "running"

\* C9: when provisioning or joining failed, the process that runs the
\* command is under no memory or CPU limit of a group minirun-<name>.
C9_FailureMeansUnconfined ==
    \A i \in Invocations :
        child[i] = "running" /\ (cgroups_enabled[i] = 0 \/ ~Has(i, "join", "ok"))
            => \A p \in PathLens :
                  i \in procs[p]
                      => memory_max[p] = Unlimited /\ cpu_max[p] = Unlimited

\* C10: main returns 0 after a normal termination of the container, 1 on
\* fewer than three positional parameters and on a malloc or clone failure,
\* and nothing else.
C10_ExitCodes ==
    \A i \in Invocations :
        Returned(i) =>
            /\ exitCode[i] \in {0, 1}
            /\ argc[i] < MinArgc => exitCode[i] = 1
            /\ Has(i, "malloc", "fail") \/ Has(i, "clone", "fail") => exitCode[i] = 1
            /\ Has(i, "exit", 0) => exitCode[i] = 0

C10_Witness ==
    \E i \in Invocations : Returned(i) /\ Has(i, "exit", 0) /\ exitCode[i] = 0

\* C11: with fewer than three positional parameters main returns 1 at once:
\* it has made no other call (no access, mkdir, write, malloc, clone,
\* cleanup_cgroups), has no child and no config, and the step that returns
\* leaves every directory, limit file and membership as it was.
C11_ConfigErrorTouchesNothing ==
    /\ [](\A i \in Invocations :
            Returned(i) /\ argc[i] < MinArgc =>
                /\ events[i] = << << "main", "usage" >> >>
                /\ child[i] = "none"
                /\ config[i] = NoConfig
                /\ exitCode[i] = 1)
    /\ [][\A i \in Invocations :
            pc[i] = "main" /\ argc[i] < MinArgc /\ pc'[i] # pc[i]
                => fsVars' = fsVars /\ pc'[i] = "returned"]_vars

C11_Witness ==
    \E i \in Invocations :
        /\ Returned(i)
        /\ argc[i] < MinArgc
        /\ dirs # {}
        /\ writable

\* C12: a call of cleanup_cgroups that follows an earlier call for the same
\* name changes nothing, a call for a group that is absent changes nothing,
\* a first call removes the group whenever rmdir succeeds, and no call
\* changes anything but the hierarchy (it reports no error to its caller).
C12_CleanupIdempotent ==
    [][\A i \in Invocations :
          Count(i, "cleanup_cgroups")' = Count(i, "cleanup_cgroups") + 1 =>
              /\ Count(i, "cleanup_cgroups") >= 1 => fsVars' = fsVars
              /\ CleanupPath(config[i].name) \notin dirs => fsVars' = fsVars
              /\ Rmdir(CleanupPath(config[i].name)) = "ok"
                    => CleanupPath(config[i].name) \notin dirs'
              /\ UNCHANGED << pc, exitCode, childVars, cgroups_enabled >>]_vars

C12_Witness ==
    \E i \in Invocations :
        /\ Len(events[i]) = 2
        /\ events[i][1] = << "cleanup_cgroups", "ok" >>
        /\ events[i][2] = << "cleanup_cgroups", "ENOENT" >>

\* how the kernel reads "<quota> <period>": the decimal number before and
\* the one after the single space
IsDecimal(s) ==
    /\ s # << >>
    /\ \A k \in 1..Len(s) : \E d \in 1..10 : DigitChars[d] = s[k]
RECURSIVE ParseDecimal(_)
ParseDecimal(s) ==
    IF s = << >> THEN 0
    ELSE ParseDecimal(SubSeq(s, 1, Len(s) - 1)) * 10
            + ((CHOOSE d \in 1..10 : DigitChars[d] = s[Len(s)]) - 1)
SpacesOf(s) == {k \in 1..Len(s) : s[k] = " "}
QuotaText(s) == SubSeq(s, 1, (CHOOSE k \in SpacesOf(s) : TRUE) - 1)
PeriodText(s) == SubSeq(s, (CHOOSE k \in SpacesOf(s) : TRUE) + 1, Len(s))

\* C13: for cpu_percent p in 1..100 the text that reaches cpu.max is
\* "<quota> <period>" with period 100000 and quota = p * 1000
\* = period * p / 100; "50000 100000" for 50, "100000 100000" for 100.
C13_CpuMaxText ==
    \A i \in Invocations :
        Has(i, "write_cpu", "ok") /\ config[i].cpu_limit \in 1..100 =>
            LET text == cpu_max[SetupPath(config[i].name)]
                p == config[i].cpu_limit
            IN  /\ Cardinality(SpacesOf(text)) = 1
                /\ IsDecimal(QuotaText(text))
                /\ IsDecimal(PeriodText(text))
                /\ ParseDecimal(PeriodText(text)) = 100000
                /\ ParseDecimal(QuotaText(text)) = p * 1000
                /\ ParseDecimal(QuotaText(text)) * 100
                        = ParseDecimal(PeriodText(text)) * p
                /\ p = 50 => text = << "5", "0", "0", "0", "0", " ",
                                       "1", "0", "0", "0", "0", "0" >>
                /\ p = 100 => text = << "1", "0", "0", "0", "0", "0", " ",
                                        "1", "0", "0", "0", "0", "0" >>

C13_Witness ==
    \E i \in Invocations :
        /\ Has(i, "write_cpu", "ok")
        /\ config[i].cpu_limit = 100
        /\ cpu_max[SetupPath(config[i].name)]
              = << "1", "0", "0", "0", "0", "0", " ",
                   "1", "0", "0", "0", "0", "0" >>

\* C14: a cpu_percent outside 1..100 is rejected before any group is
\* created: setup_cgroups makes no mkdir and writes no cpu.max for it.
C14_OutOfRangeRejected ==
    \A i \in Invocations :
        pc[i] # "idle" /\ config[i].cpu_limit \notin 1..100 =>
            /\ ~Called(i, "mkdir")
            /\ ~Called(i, "write_cpu")

\* an invocation holds its group from the mkdir of setup_cgroups to the
\* rmdir of cleanup_cgroups
Holds(i) ==
    pc[i] \in {"setup_subtree", "setup_memory", "setup_cpu", "malloc",
               "malloc_failed", "clone", "clone_failed", "waitpid", "stopped"}

\* C15: mkdir is an interlock between two invocations racing on one name:
\* at most one of them at a time holds the group, no invocation removes the
\* group while the other one holds it, and the command of an invocation
\* that holds the group never runs while the group does not exist.
C15_MkdirInterlock ==
    /\ [](\A i, j \in Invocations : Holds(i) /\ Holds(j) => i = j)
    /\ [][\A i, j \in Invocations :
            i # j /\ Holds(j) /\ pc'[i] # pc[i] => dirs \subseteq dirs']_vars
    /\ [](\A i \in Invocations :
            Holds(i) /\ child[i] = "running"
                => SetupPath(config[i].name) \in dirs)

C17_SetupResult ==
    \A i \in Invocations :
        cgroups_enabled[i] # -1 =>
            /\ cgroups_enabled[i] = 1 <=>
                  /\ Has(i, "access", "ok")
                  /\ Has(i, "mkdir", "ok") \/ Has(i, "mkdir", "EEXIST")
                  /\ Has(i, "write_memory", "ok")
                  /\ Has(i, "write_cpu", "ok")
            /\ Called(i, "write_memory") => Called(i, "write_cpu")

\* C18: the limit files are written only after the invocation's mkdir has
\* created or found the group, nothing is written to the group after the
\* invocation's cleanup_cgroups, and a limit or a member only ever changes
\* in a group directory that exists.
C18_GroupStateInvariant ==
    /\ [](\A i \in Invocations : \A k \in 1..Len(events[i]) :
            /\ events[i][k][1] \in {"write_memory", "write_cpu"} =>
                  \E j \in 1..(k - 1) :
                      events[i][j] \in {<< "mkdir", "ok" >>, << "mkdir", "EEXIST" >>}
            /\ events[i][k][1] \in {"write_memory", "write_cpu", "join"} =>
                  \A j \in 1..(k - 1) : events[i][j][1] # "cleanup_cgroups")
    /\ [](\A p \in PathLens \ dirs :
            memory_max[p] = Unlimited /\ cpu_max[p] = Unlimited /\ procs[p] = {})
    /\ [][\A p \in PathLens :
            \/ memory_max'[p] # memory_max[p]
            \/ cpu_max'[p] # cpu_max[p]
            \/ ~(procs'[p] \subseteq procs[p])
            => p \in dirs]_vars

C18_Witness ==
    \E i \in Invocations :
        /\ Has(i, "mkdir", "ok")
        /\ Has(i, "write_memory", "ok")
        /\ Has(i, "write_cpu", "ok")
        /\ Has(i, "join", "ok")
        /\ Has(i, "cleanup_cgroups", "ok")
        /\ Returned(i)

\* position of main in program order, and the lifecycle state it stands for:
\* 1 Created, 2 LimitsProvisioning, 3 Launching, 4 Running, 5 Exited,
\* 6 CleanedUp
ProgramOrder ==
    << "main", "setup_access", "setup_mkdir", "setup_subtree", "setup_memory",
       "setup_cpu", "malloc", "malloc_failed", "clone", "clone_failed",
       "waitpid", "stopped", "returned" >>
Rank(p) == CHOOSE k \in 1..Len(ProgramOrder) : ProgramOrder[k] = p
Lifecycle(p) ==
    CASE p = "main" -> 1
      [] p \in {"setup_access", "setup_mkdir", "setup_subtree", "setup_memory",
                "setup_cpu"} -> 2
      [] p \in {"malloc", "clone"} -> 3
      [] p = "waitpid" -> 4
      [] p \in {"malloc_failed", "clone_failed", "stopped"} -> 5
      [] p = "returned" -> 6

\* C19: main only moves forward through the lifecycle and never comes back
\* to a position; cleanup_cgroups is the last call of an invocation; when
\* clone succeeded it is called only after waitpid has returned for the
\* terminated child.
C19_ForwardLifecycle ==
    /\ [][\A i \in Launched :
            pc'[i] # pc[i] =>
                /\ Rank(pc'[i]) > Rank(pc[i])
                /\ Lifecycle(pc'[i]) >= Lifecycle(pc[i])]_vars
    /\ [](\A i \in Launched : \A k \in 1..Len(events[i]) :
            events[i][k][1] = "cleanup_cgroups" => k = Len(events[i]))
    /\ [](\A i \in Launched :
            Has(i, "clone", "ok") /\ Called(i, "cleanup_cgroups") =>
                /\ Before(i, "waitpid", "cleanup_cgroups")
                /\ child[i] = "reaped"
                /\ childStatus[i] # -1)
    /\ [](\A i \in Launched :
            Called(i, "cleanup_cgroups") => Count(i, "cleanup_cgroups") = 1)

C19_Witness ==
    \E i \in Launched :
        /\ Has(i, "clone", "ok")
        /\ Has(i, "waitpid", "ok")
        /\ Called(i, "cleanup_cgroups")
        /\ Returned(i)

\* C20: child_function returns, with status 1, exactly when chroot or execl
\* failed; after a successful execl the status is the command's own; a
\* failed join or a failed mount of /proc leaves the status alone and the
\* child goes on to execl.
C20_ChildStatus ==
    /\ [](\A i \in Launched :
            /\ Has(i, "chroot", "fail") \/ Has(i, "execl", "fail")
                  <=> childStatus[i] # -1 /\ ~Has(i, "execl", "ok")
            /\ Has(i, "chroot", "fail") \/ Has(i, "execl", "fail")
                  => childStatus[i] = 1
            /\ Has(i, "execl", "ok") /\ childStatus[i] # -1
                  => Has(i, "exit", childStatus[i])
            /\ Has(i, "chroot", "ok") /\ Called(i, "mount")
                  => child[i] = "exec" \/ Called(i, "execl"))
    /\ [][\A i \in Launched :
            \/ Count(i, "join")' > Count(i, "join")
            \/ Count(i, "mount")' > Count(i, "mount")
            => childStatus'[i] = childStatus[i] /\ child'[i] # "exited"]_vars

C20_Witness ==
    \E i \in Launched :
        /\ Has(i, "join", "open_fail")
        /\ Has(i, "mount", "fail")
        /\ Has(i, "execl", "ok")
        /\ childStatus[i] = 0

\* C21: when setup_cgroups returned 1 and the child's write to cgroup.procs
\* succeeded, the command that execl started runs as a member of the group
\* setup_cgroups configured, and memory.max and cpu.max of that group hold
\* the limits of the invocation, whatever a prior run had left in them.
C21_LimitsInForceAtExec ==
    \A i \in Launched :
        /\ cgroups_enabled[i] = 1
        /\ Has(i, "join", "ok")
        /\ child[i] = "running"
        => LET group == SetupPath(config[i].name)
           IN  /\ group \in dirs
               /\ i \in procs[group]
               /\ memory_max[group] = MemoryValue(config[i].memory_limit)
               /\ cpu_max[group] = CpuValue(config[i].cpu_limit)

\* C22: for every name the path setup_cgroups creates and configures, the
\* directory of the cgroup.procs the child writes, and the path
\* cleanup_cgroups removes are one and the same /sys/fs/cgroup/minirun-<name>.
C22_OneGroupPath ==
    \A i \in Launched :
        config[i] # NoConfig =>
            LET n == config[i].name
            IN  /\ SetupPath(n) = GroupDir(n)
                /\ ProcsDir(n) = GroupDir(n)
                /\ CleanupPath(n) = GroupDir(n)

\* C23: what the child mounts in its new mount namespace, the tmpfs of the
\* test entry point and the procfs of the container entry point, is never in
\* the mount table of the parent, while the child runs or afterwards.
C23_MountsStayInChild ==
    /\ mounts.host = {}
    /\ tests.parent_mounts = {}

\* C24: the test runner returns 0 only when no ASSERT of the run failed, in
\* main's process or in a cloned child: a failed ASSERT anywhere leaves
\* tests_failed greater than 0 and makes main return 1.
C24_RunnerVerdict ==
    tests.pc = "returned" /\ tests.euid = 0 =>
        /\ tests.exit = 0 => tests.failed_asserts = 0
        /\ tests.failed_asserts > 0 => tests.tests_failed > 0 /\ tests.exit = 1
====
